---- MODULE Spec2Model ----
(***************************************************************************)
(* Farm-management ledger (src/app.py): the SQLite store, the four entry   *)
(* forms and the straight-line depreciation calculator.                    *)
(*                                                                         *)
(* Units.  Money is held in cents, quantities in whole units, dates as     *)
(* [y, m, d] records (the fields of the ISO text the store keeps).  REAL   *)
(* columns that hold a quotient are kept as exact fractions [num, den]:    *)
(* the model computes the float expressions of the code exactly, so the    *)
(* binary rounding noise of a float (about 1e-16 relative) is left out.    *)
(***************************************************************************)
EXTENDS Integers, Sequences, FiniteSets, TLC

VARIABLES db, txn, pc, req, ui, now

vars == <<db, txn, pc, req, ui, now>>

(***************************************************************************)
(* Bounds and sampled inputs                                               *)
(***************************************************************************)
MaxRows == 2

RowCount(s) == Len(s.expenses) + Len(s.revenue) + Len(s.indirect_costs) + Len(s.assets)

TextSample == {"", "feed"}
AmountSample == {0, 10000}
QuantitySample == {0, 15}
UnitPriceSample == {0, 250}
UnitSample == {"", "kg"}
PriceSample == {0, 1000000}
LifeSample == {1, 5, 10}
D2021 == [y |-> 2021, m |-> 1, d |-> 1]
D2026 == [y |-> 2026, m |-> 1, d |-> 1]
DateSample == {D2021, D2026}

(***************************************************************************)
(* Exact fractions for REAL quotients                                      *)
(***************************************************************************)
Rat(n, d) == [num |-> n, den |-> d]

RatEq(a, b) == a.num * b.den = b.num * a.den

RECURSIVE GCD(_, _)
GCD(a, b) == IF b = 0 THEN a ELSE GCD(b, a % b)

RatNorm(a) ==
    LET g == GCD(a.num, a.den)
    IN  IF g = 0 THEN a ELSE Rat(a.num \div g, a.den \div g)

RatAdd(a, b) == RatNorm(Rat(a.num * b.den + b.num * a.den, a.den * b.den))

(***************************************************************************)
(* Dates: datetime.strptime(text, '%Y-%m-%d') and the .days of a           *)
(* timedelta (proleptic Gregorian ordinals, as in the datetime module)     *)
(***************************************************************************)
is_leap(y) == y % 4 = 0 /\ (y % 100 # 0 \/ y % 400 = 0)

days_before_year(y) ==
    (y - 1) * 365 + ((y - 1) \div 4) - ((y - 1) \div 100) + ((y - 1) \div 400)

DAYS_BEFORE_MONTH == <<0, 31, 59, 90, 120, 151, 181, 212, 243, 273, 304, 334>>

days_before_month(y, m) ==
    DAYS_BEFORE_MONTH[m] + (IF m > 2 /\ is_leap(y) THEN 1 ELSE 0)

toordinal(date) == days_before_year(date.y) + days_before_month(date.y, date.m) + date.d

\* (datetime.now() - datetime.strptime(purchase_date, ...)).days: the floor of
\* the difference in days; the time of day of now never changes it because
\* the parsed purchase date is a midnight.
elapsed_days(purchase_date, today) == toordinal(today) - toordinal(purchase_date)

(***************************************************************************)
(* calculate_depreciation (straight_line), in cents                        *)
(***************************************************************************)
\* round(x, 2) of x = q + r/m cents, 0 <= r < m: nearest cent, ties to even
round2(q, r, m) ==
    IF 2 * r < m THEN q
    ELSE IF 2 * r > m THEN q + 1
    ELSE IF q % 2 = 0 THEN q ELSE q + 1

\* calculate_depreciation with the two dates of the subtraction exchanged
calculate_depreciation_reversed(purchase_price, useful_life_years, purchase_date, today) ==
    LET k == 4 * elapsed_days(today, purchase_date)
        m == 1461 * useful_life_years
        a == purchase_price \div m
        b == purchase_price % m
        n == b * (m - k)
    IN  IF k >= m
        THEN 0
        ELSE round2(a * (m - k) + (n \div m), n % m, m)

\* years_elapsed = days / 365.25 = k / 1461 with k = 4 * days;
\* annual_depreciation * years_elapsed = price * k / (1461 * life) = price * k / m;
\* min(.., price) takes price exactly when k >= m (price >= 0);
\* otherwise current_value = price * (m - k) / m, split as
\* price = a * m + b to keep the products small.
calculate_depreciation(purchase_price, useful_life_years, purchase_date, today) ==
    LET k == 4 * elapsed_days(purchase_date, today)
        m == 1461 * useful_life_years
        a == purchase_price \div m
        b == purchase_price % m
        n == b * (m - k)
    IN  IF k >= m
        THEN 0
        ELSE round2(a * (m - k) + (n \div m), n % m, m)

(***************************************************************************)
(* The store: one sequence of rows per table; AUTOINCREMENT ids are the    *)
(* positions, no statement of the program deletes a row.                   *)
(***************************************************************************)
default_centers ==
    << "Mango Production", "Orange Production", "Plum Production",
       "Short-Cycle Crops", "Poultry", "Livestock", "General Administration" >>

EmptyStore ==
    [ cost_centers     |-> << >>,
      expenses         |-> << >>,
      inventory        |-> << >>,
      revenue          |-> << >>,
      indirect_costs   |-> << >>,
      cost_allocations |-> << >>,
      assets           |-> << >> ]

\* the seeding as a plain INSERT: every run adds the default rows again
RECURSIVE seed_centers_plain_insert(_, _)
seed_centers_plain_insert(rows, names) ==
    IF names = << >> THEN rows
    ELSE seed_centers_plain_insert(Append(rows, [id |-> Len(rows) + 1, name |-> Head(names)]),
                                   Tail(names))

\* INSERT OR IGNORE INTO cost_centers (name UNIQUE): a name already there is skipped
RECURSIVE seed_centers(_, _)
seed_centers(rows, names) ==
    IF names = << >> THEN rows
    ELSE LET name == Head(names)
             present == \E i \in 1..Len(rows) : rows[i].name = name
         IN  seed_centers(IF present THEN rows
                          ELSE Append(rows, [id |-> Len(rows) + 1, name |-> name]),
                          Tail(names))

\* init_database() without the seeding loop
init_database_no_seed(store) == store

\* init_database(): CREATE TABLE IF NOT EXISTS keeps existing tables; then the seeding
init_database(store) ==
    [store EXCEPT !.cost_centers = seed_centers(store.cost_centers, default_centers)]

\* pd.read_sql_query("SELECT id, name FROM cost_centers", conn)
select_cost_centers(store) == store.cost_centers

\* a connection in autocommit mode: every statement is persisted as it runs
rollback_autocommit(committed, pending) == pending

\* The connection of get_connection() runs in sqlite3's default (deferred)
\* transaction mode: the statements of a run are pending until conn.commit();
\* a run that ends before the commit (an uncaught exception, a lost process)
\* leaves the committed store as it was.
rollback(committed, pending) == committed

NoTxn == [open |-> FALSE]
NoReq == [form |-> "none"]
Pending(store) == [open |-> TRUE, store |-> store]

Forms == {"expense", "indirect", "revenue", "asset"}

\* What the page shows after a run.  required: every field the form needs
\* (labels marked *, and the amount of the indirect-cost form) was filled;
\* message: "success" (st.success), "error" (st.error), "none" (nothing is
\* written), "exception" (uncaught exception), "crashed" (run cut at pc = at).
Screen(form, required, message) ==
    [form |-> form, required |-> required, message |-> message, at |-> "idle"]

Categories ==
    { "Inputs (Consumables)", "Operating Expenses", "Assets (Capital)",
      "Labor", "Transportation", "Other" }

Methods == {"Equal Distribution", "Manual Allocation", "Based on Direct Costs"}

\* the fields each form labels as required
expense_required(item_name, amount) == item_name # "" /\ amount > 0
indirect_required(amount) == amount > 0
revenue_required(product_name, quantity, unit, unit_price) ==
    product_name # "" /\ quantity > 0 /\ unit # "" /\ unit_price > 0
asset_required(asset_name, purchase_price) == asset_name # "" /\ purchase_price > 0

\* st.selectbox over cost_centers['id'].tolist(), left at its default: the
\* first id of the list, None (0 here) when the list is empty
center_options(df) ==
    IF df = << >> THEN {0} ELSE {df[1].id}

(***************************************************************************)
(* Initial state: first run of the script, init_database() on a new file   *)
(***************************************************************************)
Init ==
    /\ db = init_database(EmptyStore)
    /\ txn = NoTxn
    /\ pc = "idle"
    /\ req = NoReq
    /\ ui = Screen("none", TRUE, "none")
    /\ now = D2021

\* the wall clock moves forward between two runs of the script
Tick ==
    /\ pc = "idle"
    /\ \E t \in DateSample :
          /\ toordinal(t) > toordinal(now)
          /\ now' = t
    /\ UNCHANGED <<db, txn, pc, req, ui>>

(***************************************************************************)
(* Asset form (whole handler: one INSERT and the commit)                   *)
(***************************************************************************)
AssetRow(asset_name, purchase_date, purchase_price, useful_life, current_value) ==
    [ asset_name        |-> asset_name,
      purchase_date     |-> purchase_date,
      purchase_price    |-> purchase_price,
      useful_life_years |-> useful_life,
      current_value     |-> current_value,
      status            |-> "active" ]

asset_form(asset_name, purchase_date, purchase_price, useful_life) ==
    /\ pc = "idle"
    /\ LET store == init_database(db)
           required == asset_required(asset_name, purchase_price)
       IN  IF asset_name # "" /\ purchase_price > 0
           THEN /\ RowCount(db) < MaxRows
                /\ db' = [store EXCEPT !.assets = Append(@,
                            AssetRow(asset_name, purchase_date, purchase_price, useful_life,
                                     calculate_depreciation(purchase_price, useful_life,
                                                            purchase_date, now)))]
                /\ ui' = Screen("asset", required, "success")
           ELSE /\ db' = store
                /\ ui' = Screen("asset", required, "none")
    /\ UNCHANGED <<txn, pc, req, now>>

AssetSubmit ==
    \E asset_name \in TextSample, purchase_date \in DateSample,
       purchase_price \in PriceSample, useful_life \in LifeSample :
        asset_form(asset_name, purchase_date, purchase_price, useful_life)

(***************************************************************************)
(* Revenue form (whole handler: one INSERT and the commit)                 *)
(***************************************************************************)
\* the total taken as the sum of its two factors
revenue_total_sum(quantity, unit_price) == quantity + unit_price

\* total_amount = quantity * unit_price (line 549, from the submitted values)
revenue_total(quantity, unit_price) == quantity * unit_price

revenue_form(product_name, cost_center, quantity, unit, unit_price) ==
    /\ pc = "idle"
    /\ LET store == init_database(db)
           required == revenue_required(product_name, quantity, unit, unit_price)
           total_amount == revenue_total(quantity, unit_price)
       IN  IF product_name # "" /\ quantity > 0 /\ unit_price > 0
           THEN /\ RowCount(db) < MaxRows
                /\ db' = [store EXCEPT !.revenue = Append(@,
                            [ product_name   |-> product_name,
                              cost_center_id |-> cost_center,
                              quantity       |-> quantity,
                              unit           |-> unit,
                              unit_price     |-> unit_price,
                              total_amount   |-> total_amount ])]
                /\ ui' = Screen("revenue", required, "success")
           ELSE /\ db' = store
                /\ ui' = Screen("revenue", required, "error")
    /\ UNCHANGED <<txn, pc, req, now>>

RevenueSubmit ==
    \E product_name \in TextSample, quantity \in QuantitySample,
       unit \in UnitSample, unit_price \in UnitPriceSample :
        \E cost_center \in center_options(select_cost_centers(init_database(db))) :
            revenue_form(product_name, cost_center, quantity, unit, unit_price)

(***************************************************************************)
(* Expense form: INSERT INTO expenses; INSERT OR REPLACE INTO inventory;   *)
(* conn.commit().  The statements are separate steps so that a run cut     *)
(* between them can be observed.                                           *)
(***************************************************************************)
\* the inventory statement run for every category
InventoryCategories_all == Categories

InventoryCategories == {"Inputs (Consumables)", "Operating Expenses"}

\* amount / quantity without the fallback divisor
unit_price_unguarded(amount, quantity) == Rat(amount, quantity)

\* amount / (quantity if quantity > 0 else 1)
unit_price_of(amount, quantity) == Rat(amount, IF quantity > 0 THEN quantity ELSE 1)

\* The rows (SELECT quantity FROM inventory WHERE item_name=?) can yield.  A
\* scalar subquery takes the first row of a result whose order SQL leaves
\* open, so any matching row may be the one read.
matching_rows(inventory, item_name) ==
    {i \in 1..Len(inventory) : inventory[i].item_name = item_name}

\* COALESCE(<subquery>, 0) + ?  for each row the subquery may have read
upsert_quantities(inventory, item_name, quantity) ==
    IF matching_rows(inventory, item_name) = {}
    THEN {0 + quantity}
    ELSE {inventory[i].quantity + quantity : i \in matching_rows(inventory, item_name)}

\* INSERT OR REPLACE without an id: the only key of inventory is the
\* AUTOINCREMENT id, so no row conflicts and the statement adds a row.
insert_or_replace_inventory(inventory, row) == Append(inventory, row)

expense_form(item_name, category, cost_center, amount, quantity) ==
    /\ pc = "idle"
    /\ LET store == init_database(db)
           required == expense_required(item_name, amount)
       IN  IF item_name # "" /\ amount > 0
           THEN /\ RowCount(db) < MaxRows
                /\ db' = store
                /\ txn' = Pending([store EXCEPT !.expenses = Append(@,
                            [ item_name      |-> item_name,
                              category       |-> category,
                              cost_center_id |-> cost_center,
                              amount         |-> amount,
                              quantity       |-> quantity ])])
                /\ req' = [form |-> "expense", item_name |-> item_name,
                           category |-> category, amount |-> amount,
                           quantity |-> quantity]
                /\ pc' = "expense_upsert"
                /\ ui' = Screen("expense", required, "none")
           ELSE /\ db' = store
                /\ ui' = Screen("expense", required, "error")
                /\ UNCHANGED <<txn, req, pc>>
    /\ UNCHANGED now

ExpenseSubmit ==
    \E item_name \in TextSample, category \in Categories,
       amount \in AmountSample, quantity \in QuantitySample :
        \E cost_center \in center_options(select_cost_centers(init_database(db))) :
            expense_form(item_name, category, cost_center, amount, quantity)

\* lines 417-426
ExpenseUpsert ==
    /\ pc = "expense_upsert"
    /\ IF req.category \in InventoryCategories
       THEN \E q \in upsert_quantities(txn.store.inventory, req.item_name, req.quantity) :
               txn' = Pending([txn.store EXCEPT !.inventory =
                         insert_or_replace_inventory(@,
                            [ item_name   |-> req.item_name,
                              category    |-> req.category,
                              quantity    |-> q,
                              unit_price  |-> unit_price_of(req.amount, req.quantity),
                              total_value |-> req.amount ])])
       ELSE txn' = txn
    /\ pc' = "commit"
    /\ UNCHANGED <<db, req, ui, now>>

(***************************************************************************)
(* Indirect-cost form: INSERT INTO indirect_costs; the allocation rows;    *)
(* conn.commit().  df is the cost_centers frame the page read (line 441).  *)
(***************************************************************************)
\* the split computed with floor division (amount // num_centers)
RECURSIVE equal_allocations_floor(_, _, _, _)
equal_allocations_floor(indirect_cost_id, df, amount, num_centers) ==
    IF df = << >> THEN << >>
    ELSE << [ indirect_cost_id      |-> indirect_cost_id,
              cost_center_id        |-> Head(df).id,
              allocated_amount      |-> Rat(amount \div num_centers, 1),
              allocation_percentage |-> Rat(100, num_centers) ] >>
         \o equal_allocations_floor(indirect_cost_id, Tail(df), amount, num_centers)

\* one row per center of the frame: amount / num_centers, 100.0 / num_centers
RECURSIVE equal_allocations(_, _, _, _)
equal_allocations(indirect_cost_id, df, amount, num_centers) ==
    IF df = << >> THEN << >>
    ELSE << [ indirect_cost_id      |-> indirect_cost_id,
              cost_center_id        |-> Head(df).id,
              allocated_amount      |-> Rat(amount, num_centers),
              allocation_percentage |-> Rat(100, num_centers) ] >>
         \o equal_allocations(indirect_cost_id, Tail(df), amount, num_centers)

indirect_cost_form(df, amount, allocation_method) ==
    /\ pc = "idle"
    /\ LET store == init_database(db)
           required == indirect_required(amount)
       IN  IF amount > 0
           THEN /\ RowCount(db) < MaxRows
                /\ db' = store
                /\ txn' = Pending([store EXCEPT !.indirect_costs = Append(@,
                            [ amount |-> amount,
                              allocation_method |-> allocation_method ])])
                /\ req' = [form |-> "indirect", amount |-> amount,
                           allocation_method |-> allocation_method,
                           indirect_cost_id |-> Len(store.indirect_costs) + 1,
                           cost_centers |-> df]
                /\ pc' = "indirect_alloc"
                /\ ui' = Screen("indirect", required, "none")
           ELSE /\ db' = store
                /\ ui' = Screen("indirect", required, "none")
                /\ UNCHANGED <<txn, req, pc>>
    /\ UNCHANGED now

IndirectSubmit ==
    \E amount \in AmountSample, allocation_method \in Methods :
        indirect_cost_form(select_cost_centers(init_database(db)), amount, allocation_method)

\* the allocation loop run for every method, not only 'Equal Distribution'
IndirectAllocate_all_methods ==
    /\ pc = "indirect_alloc"
    /\ LET num_centers == Len(req.cost_centers)
       IN  IF num_centers = 0
           THEN /\ db' = rollback(db, txn.store)
                /\ txn' = NoTxn
                /\ pc' = "idle"
                /\ req' = NoReq
                /\ ui' = [ui EXCEPT !.message = "exception"]
           ELSE /\ txn' = Pending([txn.store EXCEPT !.cost_allocations = @ \o
                            equal_allocations(req.indirect_cost_id, req.cost_centers,
                                              req.amount, num_centers)])
                /\ pc' = "commit"
                /\ UNCHANGED <<db, req, ui>>
    /\ UNCHANGED now

\* lines 483-494; amount / num_centers raises ZeroDivisionError when the frame
\* is empty: nothing catches it, the run ends without the commit.
IndirectAllocate ==
    /\ pc = "indirect_alloc"
    /\ LET num_centers == Len(req.cost_centers)
       IN  IF req.allocation_method = "Equal Distribution"
           THEN IF num_centers = 0
                THEN /\ db' = rollback(db, txn.store)
                     /\ txn' = NoTxn
                     /\ pc' = "idle"
                     /\ req' = NoReq
                     /\ ui' = [ui EXCEPT !.message = "exception"]
                ELSE /\ txn' = Pending([txn.store EXCEPT !.cost_allocations = @ \o
                                 equal_allocations(req.indirect_cost_id, req.cost_centers,
                                                   req.amount, num_centers)])
                     /\ pc' = "commit"
                     /\ UNCHANGED <<db, req, ui>>
           ELSE /\ pc' = "commit"
                /\ UNCHANGED <<db, txn, req, ui>>
    /\ UNCHANGED now

\* conn.commit() and the st.success that follows it (lines 428-429, 496-497)
Commit ==
    /\ pc = "commit"
    /\ db' = txn.store
    /\ txn' = NoTxn
    /\ pc' = "idle"
    /\ req' = NoReq
    /\ ui' = [ui EXCEPT !.message = "success"]
    /\ UNCHANGED now

\* the process is lost in the middle of a run, before conn.commit()
Crash ==
    /\ pc # "idle"
    /\ db' = rollback(db, txn.store)
    /\ txn' = NoTxn
    /\ pc' = "idle"
    /\ req' = NoReq
    /\ ui' = [ui EXCEPT !.message = "crashed", !.at = pc]
    /\ UNCHANGED now

(***************************************************************************)
(* Reads of the assets: the dashboard total (lines 269-283), the registry  *)
(* (lines 714-735) and the depreciation report (lines 742-753) overwrite   *)
(* the current_value column of the frame they read with the recomputed     *)
(* value before anything is shown.                                         *)
(***************************************************************************)
\* a read that shows the current_value column as it is stored
shown_value_stored(store, i, today) == store.assets[i].current_value

\* what a read of the assets (dashboard, registry, report) shows for row i
shown_value(store, i, today) ==
    calculate_depreciation(store.assets[i].purchase_price,
                           store.assets[i].useful_life_years,
                           store.assets[i].purchase_date, today)

\* SELECT * FROM assets WHERE status='active'
active_assets(store) == {i \in 1..Len(store.assets) : store.assets[i].status = "active"}

RECURSIVE sum_values(_, _, _)
sum_values(store, rows, today) ==
    IF rows = {} THEN 0
    ELSE LET i == CHOOSE r \in rows : TRUE
         IN  shown_value(store, i, today) + sum_values(store, rows \ {i}, today)

\* the current_value column shown for the active assets, and its .sum()
assets_page(store, today) ==
    [ values |-> [i \in active_assets(store) |-> shown_value(store, i, today)],
      total  |-> sum_values(store, active_assets(store), today) ]

\* a run of the script that renders one of the pages reading the assets
view_assets ==
    /\ pc = "idle"
    /\ db' = init_database(db)
    /\ ui' = [ form |-> "assets_view", required |-> TRUE, message |-> "none",
               at |-> "idle", page |-> assets_page(init_database(db), now) ]
    /\ UNCHANGED <<txn, pc, req, now>>

(***************************************************************************)
(* Specifications                                                          *)
(***************************************************************************)
Next ==
    \/ Tick
    \/ view_assets
    \/ AssetSubmit
    \/ RevenueSubmit
    \/ ExpenseSubmit
    \/ ExpenseUpsert
    \/ IndirectSubmit
    \/ IndirectAllocate
    \/ Commit
    \/ Crash

Spec == Init /\ [][Next]_vars

\* The indirect-cost handler on any frame the query of line 441 could hand
\* it, the empty one included (the seeding of init_database keeps the table
\* at 7 rows, so the application alone never produces the shorter frames).
FrameSample == {SubSeq(init_database(EmptyStore).cost_centers, 1, n) : n \in 0..Len(default_centers)}

IndirectSubmitAnyFrame ==
    \E df \in FrameSample, amount \in AmountSample, allocation_method \in Methods :
        indirect_cost_form(df, amount, allocation_method)

NextHandler ==
    \/ IndirectSubmitAnyFrame
    \/ IndirectAllocate
    \/ Commit
    \/ Crash

SpecHandler == Init /\ [][NextHandler]_vars

(***************************************************************************)
(* Properties                                                              *)
(***************************************************************************)
\* the date L calendar years after a date (no sampled date is a 29 February)
AddYears(date, years) == [date EXCEPT !.y = @ + years]

\* C1: for every stored asset and the current time, the straight-line value
\* lies in the closed interval [0, purchase_price].
C1_ValueWithinPrice ==
    \A i \in 1..Len(db.assets) :
        /\ shown_value(db, i, now) >= 0
        /\ shown_value(db, i, now) <= db.assets[i].purchase_price

\* C3: from purchase_date + useful_life_years calendar years on, the value of
\* every stored asset is exactly 0.
C3_ZeroAtEndOfLife ==
    \A i \in 1..Len(db.assets) :
        toordinal(now) >= toordinal(AddYears(db.assets[i].purchase_date,
                                             db.assets[i].useful_life_years))
            => shown_value(db, i, now) = 0

\* C4: read on its purchase date an asset is worth its purchase price, and an
\* asset bought for 10000.00 with a useful life of 10 years is worth 5000.00
\* five years after its purchase date.
C4_AtPurchaseAndHalfLife ==
    \A i \in 1..Len(db.assets) :
        /\ now = db.assets[i].purchase_date
              => shown_value(db, i, now) = db.assets[i].purchase_price
        /\ ( /\ db.assets[i].purchase_price = 1000000
             /\ db.assets[i].useful_life_years = 10
             /\ now = AddYears(db.assets[i].purchase_date, 5) )
              => shown_value(db, i, now) = 500000

\* the first half of C4 alone: no depreciation on the purchase date
C4_NoDepreciationAtPurchase ==
    \A i \in 1..Len(db.assets) :
        now = db.assets[i].purchase_date
            => shown_value(db, i, now) = db.assets[i].purchase_price

\* C5: the value of a stored asset never rises when the clock moves forward:
\* a later read shows at most what an earlier read showed.
C5_Monotone ==
    [][ toordinal(now') >= toordinal(now) =>
            \A i \in 1..Len(db.assets) :
                i <= Len(db'.assets) /\ db'.assets[i] = db.assets[i]
                    => shown_value(db', i, now') <= shown_value(db, i, now) ]_vars

\* C5 witness: an asset whose value read now is strictly below the value
\* computed when it was inserted at an earlier time
C5_Witness ==
    \E i \in 1..Len(db.assets) :
        /\ toordinal(now) > toordinal(db.assets[i].purchase_date)
        /\ shown_value(db, i, now) < db.assets[i].current_value
        /\ shown_value(db, i, now) > 0

\* the cost_allocations rows of indirect cost k
allocations_of(store, k) ==
    {j \in 1..Len(store.cost_allocations) : store.cost_allocations[j].indirect_cost_id = k}

RECURSIVE RatSum(_, _)
RatSum(store, rows) ==
    IF rows = {} THEN Rat(0, 1)
    ELSE LET j == CHOOSE r \in rows : TRUE
         IN  RatAdd(store.cost_allocations[j].allocated_amount, RatSum(store, rows \ {j}))

\* C2: every persisted indirect cost saved with 'Equal Distribution' has
\* exactly one allocation row per cost center (N rows for N centers), each of
\* amount / N and 100 / N percent, and the rows sum to the amount.
C2_EqualAllocation ==
    \A k \in 1..Len(db.indirect_costs) :
        db.indirect_costs[k].allocation_method = "Equal Distribution" =>
            LET N == Len(db.cost_centers)
                rows == allocations_of(db, k)
                amount == db.indirect_costs[k].amount
            IN  /\ Cardinality(rows) = N
                /\ \A c \in 1..N :
                      Cardinality({j \in rows :
                          db.cost_allocations[j].cost_center_id = db.cost_centers[c].id}) = 1
                /\ \A j \in rows :
                      /\ RatEq(db.cost_allocations[j].allocated_amount, Rat(amount, N))
                      /\ RatEq(db.cost_allocations[j].allocation_percentage, Rat(100, N))
                /\ RatEq(RatSum(db, rows), Rat(amount, 1))

\* C2 witness: an 'Equal Distribution' cost is persisted with its rows
C2_Witness ==
    \E k \in 1..Len(db.indirect_costs) :
        /\ db.indirect_costs[k].allocation_method = "Equal Distribution"
        /\ allocations_of(db, k) # {}

RECURSIVE SumQuantity(_, _)
SumQuantity(expenses, item_name) ==
    IF expenses = << >> THEN 0
    ELSE (IF Head(expenses).item_name = item_name
             /\ Head(expenses).category \in InventoryCategories
          THEN Head(expenses).quantity ELSE 0)
         + SumQuantity(Tail(expenses), item_name)

\* C7: for each item_name with expenses in the two inventory categories, the
\* inventory holds a single record, whose quantity is the sum of the
\* quantities of those expenses.
C7_SingleAccumulatedRecord ==
    \A e \in 1..Len(db.expenses) :
        db.expenses[e].category \in InventoryCategories =>
            LET rows == matching_rows(db.inventory, db.expenses[e].item_name)
            IN  /\ Cardinality(rows) = 1
                /\ \A i \in rows :
                      db.inventory[i].quantity = SumQuantity(db.expenses, db.expenses[e].item_name)

\* C8 as stated: a run of the expense form cut after the expense INSERT and
\* before the inventory upsert leaves the new expense row persisted and the
\* inventory as it was.
C8_ExpenseSurvivesCrash ==
    [][ (pc = "expense_upsert" /\ ui'.message = "crashed")
        => (db'.expenses = txn.store.expenses /\ db'.inventory = db.inventory) ]_vars

\* C8 as amended: a run of the expense form cut after the expense INSERT and
\* before the inventory upsert persists neither the expense row nor the
\* inventory change: the store is the one committed before the run.
C8_CrashPersistsNothing ==
    [][ (pc = "expense_upsert" /\ ui'.message = "crashed")
        => ( /\ db' = db
             /\ Len(db'.expenses) + 1 = Len(txn.store.expenses)
             /\ db'.inventory = db.inventory ) ]_vars

\* C8 witness: a run of the expense form was cut before the inventory upsert
C8_Witness ==
    ui.form = "expense" /\ ui.message = "crashed" /\ ui.at = "expense_upsert"

\* C9: every persisted revenue row has total_amount = quantity * unit_price
\* for the values of that row, a non-empty product_name, quantity > 0 and
\* unit_price > 0.
C9_RevenueTotal ==
    \A r \in 1..Len(db.revenue) :
        /\ db.revenue[r].total_amount = db.revenue[r].quantity * db.revenue[r].unit_price
        /\ db.revenue[r].product_name # ""
        /\ db.revenue[r].quantity > 0
        /\ db.revenue[r].unit_price > 0

\* C9 witness: a revenue row is persisted
C9_Witness == Len(db.revenue) > 0

\* C10: in each of the four forms, a submission with an empty required text
\* field or a non-positive required number persists nothing and shows an
\* inline error message.
C10_InvalidRejectedWithMessage ==
    [][ (ui'.form \in Forms /\ ~ui'.required)
        => (db' = db /\ ui'.message = "error") ]_vars

UnallocatedMethods == {"Manual Allocation", "Based on Direct Costs"}

\* C11: an accepted indirect cost saved with 'Manual Allocation' or 'Based on
\* Direct Costs' is persisted by its commit without any cost_allocations row,
\* and in every state no cost_allocations row references such a cost.
C11_NoAllocationForOtherMethods ==
    [][ /\ \A k \in 1..Len(db'.indirect_costs) :
              db'.indirect_costs[k].allocation_method \in UnallocatedMethods
                  => allocations_of(db', k) = {}
        /\ ( /\ pc = "commit" /\ pc' = "idle" /\ ui'.message = "success"
             /\ req.form = "indirect"
             /\ req.allocation_method \in UnallocatedMethods )
           => /\ db'.indirect_costs = Append(db.indirect_costs,
                     [amount |-> req.amount, allocation_method |-> req.allocation_method])
              /\ db'.cost_allocations = db.cost_allocations ]_vars

\* C11 witness: a cost saved with one of the two methods is persisted
C11_Witness ==
    /\ ui.form = "indirect" /\ ui.message = "success"
    /\ \E k \in 1..Len(db.indirect_costs) :
          db.indirect_costs[k].allocation_method \in UnallocatedMethods

\* the 7 default rows with the ids the first run gives them
SeededCenters ==
    [i \in 1..Len(default_centers) |-> [id |-> i, name |-> default_centers[i]]]

\* C12: cost centers are seeded once and immutable: in every state, committed
\* or pending, the table is exactly the 7 default rows with the ids of the
\* first run (so no step of any form inserts, updates or deletes a row), and
\* a further run of init_database leaves the store as it is.
C12_CentersImmutable ==
    /\ db.cost_centers = SeededCenters
    /\ seed_centers(db.cost_centers, default_centers) = db.cost_centers
    /\ init_database(db) = db
    /\ txn.open => txn.store.cost_centers = SeededCenters

\* C12 witness: several runs of the script have committed rows and the table
\* still holds the 7 seeded rows
C12_Witness ==
    /\ RowCount(db) >= 2
    /\ Len(db.cost_centers) = Len(default_centers)
    /\ ui.message = "success"

AltValues == {0, 1}

\* the store with the stored current_value column of every asset set to v
WithStoredValue(store, v) ==
    [store EXCEPT !.assets =
        [i \in 1..Len(store.assets) |-> [store.assets[i] EXCEPT !.current_value = v]]]

\* C13: the values and the total a read of the assets shows are recomputed
\* from purchase_price, useful_life_years, purchase_date and the current
\* time: a store that differs only in the stored current_value column shows
\* the same values and the same total.
C13_ShownIgnoresStoredValue ==
    [][ (ui'.form = "assets_view" /\ now' = now)
        => \A v \in AltValues :
              assets_page(WithStoredValue(db', v), now') = ui'.page ]_vars

\* C13 witness: a read shows for some asset a value other than the stored one
C13_Witness ==
    /\ ui.form = "assets_view"
    /\ \E i \in 1..Len(db.assets) :
          /\ i \in DOMAIN ui.page.values
          /\ ui.page.values[i] # db.assets[i].current_value

IsInventoryExpense(e) == e.category \in {"Inputs (Consumables)", "Operating Expenses"}

\* C14: the inventory row written by an accepted expense holds unit_price =
\* amount / quantity when quantity > 0 and amount when quantity = 0 (never a
\* division by zero), and total_value = amount of that submission.
C14_UnitPrice ==
    LET linked == SelectSeq(db.expenses, IsInventoryExpense)
    IN  /\ Len(db.inventory) = Len(linked)
        /\ \A j \in 1..Len(linked) :
              /\ db.inventory[j].unit_price.den # 0
              /\ linked[j].quantity > 0 =>
                    RatEq(db.inventory[j].unit_price, Rat(linked[j].amount, linked[j].quantity))
              /\ linked[j].quantity = 0 =>
                    RatEq(db.inventory[j].unit_price, Rat(linked[j].amount, 1))
              /\ db.inventory[j].total_value = linked[j].amount

\* C14 witness: an inventory row written by an expense of quantity 0, and one
\* written by an expense of positive quantity
C14_Witness ==
    LET linked == SelectSeq(db.expenses, IsInventoryExpense)
    IN  /\ Len(db.inventory) = Len(linked)
        /\ \E j \in 1..Len(linked) : linked[j].quantity = 0
        /\ \E j \in 1..Len(linked) : linked[j].quantity > 0

\* C15: in every reachable state the cost_centers table holds the 7 default
\* centers, so the frame the indirect-cost form divides by is never empty and
\* no run ends in the division by zero.
C15_DivisorNeverZero ==
    /\ Len(db.cost_centers) >= Len(default_centers)
    /\ \A n \in 1..Len(default_centers) :
          \E i \in 1..Len(db.cost_centers) : db.cost_centers[i].name = default_centers[n]
    /\ Len(select_cost_centers(init_database(db))) > 0
    /\ pc = "indirect_alloc" => Len(req.cost_centers) > 0
    /\ ui.message # "exception"

\* C15 witness: an 'Equal Distribution' submission is about to divide
C15_Witness ==
    /\ pc = "indirect_alloc"
    /\ req.allocation_method = "Equal Distribution"
    /\ Len(req.cost_centers) = Len(default_centers)

\* C16: the commit of an accepted expense whose category is not one of the two
\* inventory categories adds exactly one expenses row and leaves the
\* inventory as it was; and no step changes or removes an expenses row that
\* is already persisted.
C16_ExpenseFrame ==
    [][ /\ Len(db'.expenses) >= Len(db.expenses)
        /\ SubSeq(db'.expenses, 1, Len(db.expenses)) = db.expenses
        /\ ( /\ pc = "commit" /\ pc' = "idle" /\ ui'.message = "success"
             /\ req.form = "expense"
             /\ req.category \notin {"Inputs (Consumables)", "Operating Expenses"} )
           => /\ Len(db'.expenses) = Len(db.expenses) + 1
              /\ db'.expenses[Len(db'.expenses)].item_name = req.item_name
              /\ db'.expenses[Len(db'.expenses)].category = req.category
              /\ db'.inventory = db.inventory ]_vars

\* C16 witness: an expense of another category is persisted after an
\* inventory row already existed
C16_Witness ==
    /\ ui.form = "expense" /\ ui.message = "success"
    /\ Len(db.expenses) >= 2
    /\ Len(db.inventory) >= 1
    /\ ~IsInventoryExpense(db.expenses[Len(db.expenses)])

====
